---- MODULE Spec2Model ----
(***************************************************************************)
(* Model of internal/orchestrator/taskstats.go: the StatsTask of the       *)
(* orchestrator.  shouldRun scans the repository's operation log newest    *)
(* first and decides whether a `restic stats` run is due; Next consumes    *)
(* the task's scheduled instant and creates the PENDING operation.         *)
(*                                                                         *)
(* int64 byte counts are kept as pairs <<q, r>> standing for q * 2^30 + r  *)
(* with 0 <= r < 2^30 (floor division, so -1 is <<-1, 2^30 - 1>>), because *)
(* the byte threshold 10 * 2^30 exceeds the integers TLC computes with.    *)
(* No sum of the model reaches 2^63, so the int64 wrap-around never acts.  *)
(***************************************************************************)
EXTENDS Integers, Sequences, FiniteSets, TLC

VARIABLES
    oplog,          \* t.orch.OpLog restricted to plan.Repo: operations, oldest first
    at,             \* t.at: the scheduled instant (nanoseconds) or NIL
    linkSnapshot,   \* t.linkSnapshot
    op,             \* t.op of TaskWithOperation: the task's operation or NIL
    ret,            \* value returned by the last call of Next (NIL: not due)
    result,         \* (bool, error) returned by the last call of shouldRun
    scan,           \* bytesSinceLastStat and howFarBack at the end of the last scan
    last,           \* the last call made, with its inputs and internal outcomes
    tasks,          \* number of tasks constructed so far
    dueCount,       \* number of Next calls on this task that returned due
    created,        \* number of operations this task handed to the log successfully
    addFailed,      \* the log refused the operation of this task
    evalsLeft,      \* calls of shouldRun on its own still to be made
    retention,      \* t.plan.Retention: the retention policy or NIL
    opStats,        \* t.op.Op.OperationStats.Stats: the statistics stored or NIL
    hooks,          \* the calls of ExecuteHooks made by the task's last call of Run
    runCall,        \* the task's last call of Run: inputs, internal outcomes, return
    pc,             \* concurrent callers of Next: where each one is
    local           \* concurrent callers of Next: the local variable ret of each

taskVars == <<oplog, at, linkSnapshot, op, ret, result, scan, last, tasks, dueCount, created>>

vars == <<oplog, at, linkSnapshot, op, ret, result, scan, last, tasks, dueCount, created,
          addFailed, retention, opStats, hooks, runCall, pc, local, evalsLeft>>

\* A nil pointer is the empty sequence, a pointer to v is <<v>>.
NIL == <<>>

Ptr(v) == <<v>>

Deref(p) == p[1]

----------------------------------------------------------------------------
(* int64 arithmetic on <<q, r>> pairs *)

Base == 1024 * 1024 * 1024

I64(q, r) == <<q, r>>

Add64(a, b) ==
    LET r == a[2] + b[2]
    IN  IF r >= Base THEN <<a[1] + b[1] + 1, r - Base>> ELSE <<a[1] + b[1], r>>

Gt64(a, b) == a[1] > b[1] \/ (a[1] = b[1] /\ a[2] > b[2])

Le64(a, b) == ~Gt64(a, b)

Zero64 == I64(0, 0)

MinusOne64 == I64(-1, Base - 1)

----------------------------------------------------------------------------
(* program constants *)

\* var statBytesThreshold int64 = 10 * 1024 * 1024 * 1024
statBytesThreshold == I64(10, 0)

\* var statOperationsThreshold int = 100
statOperationsThreshold == 100

PlanId == "plan1"

PlanRepo == "repo1"

NanosPerMilli == 1000000

----------------------------------------------------------------------------
(* bounds of the model *)

MaxNewer == 2       \* explicit entries at the newest end of an initial log
Extra == 50         \* entries beyond the operation threshold in the longest run
MaxTime == 2        \* scheduled instants range over 1..MaxTime milliseconds
MaxTasks == 2       \* tasks constructed in one behaviour
MaxInitLog == 2     \* length of the initial log of the task life cycle
MaxEvals == 2       \* calls of shouldRun on its own over one log

----------------------------------------------------------------------------
(* operations of the log *)

Operation(status, kind, lastStatus, dataAdded, planId, snapshotId, startMs) ==
    [Status |-> status, Op |-> kind, LastStatus |-> lastStatus, DataAdded |-> dataAdded,
     PlanId |-> planId, RepoId |-> PlanRepo, SnapshotId |-> snapshotId,
     UnixTimeStartMs |-> startMs]

\* An operation written by another task of the same repository.
Entry(status, kind, lastStatus, dataAdded) ==
    Operation(status, kind, lastStatus, dataAdded, "plan0", "", 0)

StatsOK      == Entry("SUCCESS", "OperationStats", "nil", Zero64)
StatsPending == Entry("PENDING", "OperationStats", "nil", Zero64)
BackupByte   == Entry("SUCCESS", "OperationBackup", "Summary", I64(0, 1))
BackupMiB    == Entry("SUCCESS", "OperationBackup", "Summary", I64(0, 1024 * 1024))
Backup3GiB   == Entry("SUCCESS", "OperationBackup", "Summary", I64(3, 0))
BackupOver   == Entry("SUCCESS", "OperationBackup", "Summary", Add64(statBytesThreshold, I64(0, 1)))
BackupFailed == Entry("ERROR", "OperationBackup", "nil", Zero64)
BackupRunning == Entry("INPROGRESS", "OperationBackup", "Status", I64(0, 1))
ForgetOK     == Entry("SUCCESS", "OperationForget", "nil", Zero64)

Alphabet == {StatsOK, StatsPending, BackupByte, BackupOver, BackupFailed,
             BackupRunning, ForgetOK}

SeqsUpTo(S, n) == UNION {[1..k -> S] : k \in 0..n}

Repeat(e, n) == [i \in 1..n |-> e]

\* Runs of equal entries: small backups up to and beyond the operation
\* threshold, five backups of 3 GiB, a threshold's worth of unsettled entries.
Runs ==
    {Repeat(BackupMiB, n) : n \in {0, statOperationsThreshold - 1, statOperationsThreshold,
                                   statOperationsThreshold + Extra}}
    \cup {Repeat(Backup3GiB, 5), Repeat(BackupRunning, statOperationsThreshold)}

\* What an initial log starts with: nothing, or one entry.
Olders == SeqsUpTo(Alphabet, 1)

\* The logs an evaluation starts from: at most one old entry, a run of equal
\* entries, a few explicit recent entries.
LogFamily ==
    {older \o run \o newer :
        older \in Olders, run \in Runs,
        newer \in SeqsUpTo(Alphabet, MaxNewer)}

\* Scheduled instants in nanoseconds: whole milliseconds and instants just
\* short of the next millisecond, in turn.
Instants == {m * NanosPerMilli + (m % 2) * (NanosPerMilli - 1) : m \in 1..MaxTime}

----------------------------------------------------------------------------
(* shouldRun: the scan of the operation log *)

Settled(o) == o.Status # "PENDING" /\ o.Status # "INPROGRESS"

\* One step of the collector on entry i, walking from the newest entry back:
\* need counts the settled entries still wanted, start is the oldest entry kept.
CollectStep(log, i, c) ==
    IF c.need = 0 THEN c
    ELSE [need |-> IF Settled(log[i]) THEN c.need - 1 ELSE c.need, start |-> i]

\* The collector on entries hi, hi - 1, .., lo in this order.  The range is
\* halved so that the evaluation nests to the logarithm of its length only.
RECURSIVE CollectRange(_, _, _, _)
CollectRange(log, lo, hi, c) ==
    IF lo > hi \/ c.need = 0 THEN c
    ELSE IF lo = hi THEN CollectStep(log, lo, c)
    ELSE LET mid == (lo + hi) \div 2
         IN  CollectRange(log, lo, mid, CollectRange(log, mid + 1, hi, c))

\* indexutil.CollectLastN(n): the most recent entries of the log back to the
\* n-th settled one (the whole log when it holds fewer than n settled entries).
CollectLastN(log, n) ==
    LET c == CollectRange(log, 1, Len(log), [need |-> n, start |-> Len(log) + 1])
    IN  SubSeq(log, c.start, Len(log))

\* indexutil.Reversed: the collected entries, newest first.
Reversed(s) == [i \in 1..Len(s) |-> s[Len(s) + 1 - i]]

\* Visit with a Stats operation not ending the iteration.
Visit_NoStop(o, bytesSinceLastStat, howFarBack) ==
    IF o.Status = "PENDING" \/ o.Status = "INPROGRESS"
    THEN [bytes |-> bytesSinceLastStat, far |-> howFarBack, stop |-> FALSE]
    ELSE IF o.Op = "OperationStats"
    THEN [bytes |-> IF bytesSinceLastStat = MinusOne64 THEN Zero64 ELSE bytesSinceLastStat,
          far |-> howFarBack + 1, stop |-> FALSE]
    ELSE IF o.Op = "OperationBackup" /\ o.LastStatus = "Summary"
    THEN [bytes |-> Add64(bytesSinceLastStat, o.DataAdded),
          far |-> howFarBack + 1, stop |-> FALSE]
    ELSE [bytes |-> bytesSinceLastStat, far |-> howFarBack + 1, stop |-> FALSE]

\* Visit with a Stats operation leaving the sentinel -1 in place.
Visit_KeepsSentinel(o, bytesSinceLastStat, howFarBack) ==
    IF o.Status = "PENDING" \/ o.Status = "INPROGRESS"
    THEN [bytes |-> bytesSinceLastStat, far |-> howFarBack, stop |-> FALSE]
    ELSE IF o.Op = "OperationStats"
    THEN [bytes |-> bytesSinceLastStat, far |-> howFarBack + 1, stop |-> TRUE]
    ELSE IF o.Op = "OperationBackup" /\ o.LastStatus = "Summary"
    THEN [bytes |-> Add64(bytesSinceLastStat, o.DataAdded),
          far |-> howFarBack + 1, stop |-> FALSE]
    ELSE [bytes |-> bytesSinceLastStat, far |-> howFarBack + 1, stop |-> FALSE]

\* Visit with PENDING and INPROGRESS operations not skipped.
Visit_CountsUnsettled(o, bytesSinceLastStat, howFarBack) ==
    IF o.Op = "OperationStats"
    THEN [bytes |-> IF bytesSinceLastStat = MinusOne64 THEN Zero64 ELSE bytesSinceLastStat,
          far |-> howFarBack + 1, stop |-> TRUE]
    ELSE IF o.Op = "OperationBackup" /\ o.LastStatus = "Summary"
    THEN [bytes |-> Add64(bytesSinceLastStat, o.DataAdded),
          far |-> howFarBack + 1, stop |-> FALSE]
    ELSE [bytes |-> bytesSinceLastStat, far |-> howFarBack + 1, stop |-> FALSE]

\* The callback handed to ForEachByRepo, on one operation; stop stands for
\* oplog.ErrStopIteration.
Visit(o, bytesSinceLastStat, howFarBack) ==
    IF o.Status = "PENDING" \/ o.Status = "INPROGRESS"
    THEN [bytes |-> bytesSinceLastStat, far |-> howFarBack, stop |-> FALSE]
    ELSE IF o.Op = "OperationStats"
    THEN [bytes |-> IF bytesSinceLastStat = MinusOne64 THEN Zero64 ELSE bytesSinceLastStat,
          far |-> howFarBack + 1, stop |-> TRUE]
    ELSE IF o.Op = "OperationBackup" /\ o.LastStatus = "Summary"
    THEN [bytes |-> Add64(bytesSinceLastStat, o.DataAdded),
          far |-> howFarBack + 1, stop |-> FALSE]
    ELSE [bytes |-> bytesSinceLastStat, far |-> howFarBack + 1, stop |-> FALSE]

\* ForEachByRepo on the operations ops[lo], .., ops[hi] in this order, the
\* callback applied to each until it asks to stop.  The range is halved so
\* that the evaluation nests to the logarithm of its length only.
RECURSIVE ForEach(_, _, _, _)
ForEach(ops, lo, hi, v) ==
    IF lo > hi \/ v.stop THEN v
    ELSE IF lo = hi THEN Visit(ops[lo], v.bytes, v.far)
    ELSE LET mid == (lo + hi) \div 2
         IN  ForEach(ops, mid + 1, hi, ForEach(ops, lo, mid, v))

\* The iteration going on from the accumulators the scan before it left.
ScanLog_Resumes(log) ==
    LET ops == Reversed(CollectLastN(log, statOperationsThreshold))
        v == ForEach(ops, 1, Len(ops), [bytes |-> scan.bytes, far |-> scan.far, stop |-> FALSE])
    IN  [bytes |-> v.bytes, far |-> v.far]

\* var bytesSinceLastStat int64 = -1; var howFarBack int = 0; the iteration.
ScanLog(log) ==
    LET ops == Reversed(CollectLastN(log, statOperationsThreshold))
        v == ForEach(ops, 1, Len(ops), [bytes |-> MinusOne64, far |-> 0, stop |-> FALSE])
    IN  [bytes |-> v.bytes, far |-> v.far]

\* Decide without the test of the sentinel -1.
Decide_NoSentinel(bytesSinceLastStat, howFarBack) ==
    IF howFarBack >= statOperationsThreshold THEN TRUE
    ELSE IF Gt64(bytesSinceLastStat, statBytesThreshold) THEN TRUE
    ELSE FALSE

\* Decide with the operation count compared by > instead of >=.
Decide_StrictCount(bytesSinceLastStat, howFarBack) ==
    IF howFarBack > statOperationsThreshold THEN TRUE
    ELSE IF bytesSinceLastStat = MinusOne64 \/ Gt64(bytesSinceLastStat, statBytesThreshold)
    THEN TRUE
    ELSE FALSE

\* The thresholds applied to the outcome of the scan.
Decide(bytesSinceLastStat, howFarBack) ==
    IF howFarBack >= statOperationsThreshold THEN TRUE
    ELSE IF bytesSinceLastStat = MinusOne64 \/ Gt64(bytesSinceLastStat, statBytesThreshold)
    THEN TRUE
    ELSE FALSE

NoScan == [bytes |-> MinusOne64, far |-> 0]

\* shouldRun answering true together with the error of the iteration.
shouldRun_RunsOnError(log, iterErr) ==
    IF iterErr THEN [run |-> TRUE, err |-> TRUE]
    ELSE LET s == ScanLog(log) IN [run |-> Decide(s.bytes, s.far), err |-> FALSE]

\* shouldRun; iterErr: ForEachByRepo returns an error.
shouldRun(log, iterErr) ==
    IF iterErr THEN [run |-> FALSE, err |-> TRUE]
    ELSE LET s == ScanLog(log) IN [run |-> Decide(s.bytes, s.far), err |-> FALSE]

----------------------------------------------------------------------------
(* the task *)

\* timeToUnixMillis: nanoseconds since the epoch to whole milliseconds.
timeToUnixMillis(t) == t \div NanosPerMilli

NoCall == [call |-> "none", now |-> NIL, had |-> NIL, iterErr |-> FALSE, addErr |-> FALSE]

\* NewOneoffStatsTask(orchestrator, plan, linkSnapshot, at)
NewOneoffStatsTask(snap, instant) ==
    /\ tasks < MaxTasks
    /\ at' = Ptr(instant)
    /\ linkSnapshot' = snap
    /\ op' = NIL
    /\ ret' = NIL
    /\ tasks' = tasks + 1
    /\ dueCount' = 0
    /\ created' = 0
    /\ last' = [NoCall EXCEPT !.call = "NewOneoffStatsTask"]
    /\ addFailed' = FALSE
    /\ opStats' = NIL
    /\ hooks' = <<>>
    /\ runCall' = [called |-> FALSE, in |-> [getErr |-> FALSE, hookGetErr |-> FALSE,
                                            stats |-> "ok"],
                   getRepoCalls |-> 0, wrapErr |-> NIL, ret |-> NIL]
    /\ UNCHANGED <<oplog, result, scan, retention, pc, local, evalsLeft>>

\* TaskWithOperation.setOperation: the operation is added to the log and, when
\* that succeeded, becomes the task's operation.
setOperation(o, addErr) ==
    IF addErr THEN UNCHANGED <<oplog, op>>
    ELSE oplog' = Append(oplog, o) /\ op' = Ptr(o)

\* The slot left as it was.
KeepSlot == at' = at

\* t.at = nil
ConsumeSlot == at' = NIL

\* The operation built with the status INPROGRESS and no snapshot link.
NewStatsOperation_Started(snapshotId, startTime) ==
    Operation("INPROGRESS", "OperationStats", "nil", Zero64, PlanId, "",
              timeToUnixMillis(startTime))

\* The operation Next hands to setOperation.
NewStatsOperation(snapshotId, startTime) ==
    Operation("PENDING", "OperationStats", "nil", Zero64, PlanId, snapshotId,
              timeToUnixMillis(startTime))

\* The frame of Next: what no call of Next touches.
NextFrame ==
    UNCHANGED <<linkSnapshot, tasks, retention, opStats, hooks, runCall, pc, local,
                evalsLeft>>

\* Next(now) on an empty slot scanning the log all the same.
NextEmpty_Scans(now) ==
    /\ at = NIL
    /\ ret' = NIL
    /\ result' = shouldRun(oplog, FALSE)
    /\ scan' = ScanLog(oplog)
    /\ last' = [NoCall EXCEPT !.call = "Next", !.now = Ptr(now)]
    /\ UNCHANGED <<oplog, at, op, dueCount, created, addFailed>>
    /\ NextFrame

\* Next(now), the slot empty: nothing happens and nil is returned.
NextEmpty(now) ==
    /\ at = NIL
    /\ ret' = NIL
    /\ last' = [NoCall EXCEPT !.call = "Next", !.now = Ptr(now)]
    /\ UNCHANGED <<oplog, at, op, result, scan, dueCount, created, addFailed>>
    /\ NextFrame

\* Next returning the consumed instant although setOperation failed.
NextReturn_IgnoresError(addErr, slot) == slot

\* What Next returns after setOperation: nil when it failed, else ret.
NextReturn(addErr, slot) == IF addErr THEN NIL ELSE slot

\* Next(now), the slot set.
NextSet(now, iterErr, addErr) ==
    /\ at # NIL
    /\ ConsumeSlot
    /\ LET d == shouldRun(oplog, iterErr)
       IN  /\ result' = d
           /\ scan' = IF iterErr THEN NoScan ELSE ScanLog(oplog)
           /\ IF ~d.run
              THEN /\ ret' = NIL
                   /\ last' = [call |-> "Next", now |-> Ptr(now), had |-> at,
                               iterErr |-> iterErr, addErr |-> FALSE]
                   /\ UNCHANGED <<oplog, op, dueCount, created, addFailed>>
              ELSE /\ setOperation(NewStatsOperation(linkSnapshot, Deref(at)), addErr)
                   /\ ret' = NextReturn(addErr, at)
                   /\ addFailed' = (addFailed \/ addErr)
                   /\ dueCount' = IF addErr THEN dueCount ELSE dueCount + 1
                   /\ created' = IF addErr THEN created ELSE created + 1
                   /\ last' = [call |-> "Next", now |-> Ptr(now), had |-> at,
                               iterErr |-> iterErr, addErr |-> addErr]
    /\ NextFrame

Next(now) ==
    \/ NextEmpty(now)
    \/ \E iterErr \in BOOLEAN, addErr \in BOOLEAN : NextSet(now, iterErr, addErr)

----------------------------------------------------------------------------
(* Next called by two goroutines on one task: the statements of Next taken
   one at a time.  local[c] is the caller's variable ret; pc[c] is where the
   caller stands: idle, read (past line 80), cleared (past line 82), and due
   or notdue once it has returned. *)

\* What no statement of a concurrent Next touches.
RaceFrame ==
    UNCHANGED <<linkSnapshot, tasks, retention, opStats, hooks, runCall, evalsLeft>>

\* ret := t.at
NextRead(c) ==
    /\ pc[c] = "idle"
    /\ local' = [local EXCEPT ![c] = at]
    /\ pc' = [pc EXCEPT ![c] = "read"]
    /\ UNCHANGED <<oplog, at, op, ret, result, scan, last, dueCount, created, addFailed>>
    /\ RaceFrame

\* if ret != nil { t.at = nil
NextClear(c) ==
    /\ pc[c] = "read"
    /\ local[c] # NIL
    /\ ConsumeSlot
    /\ pc' = [pc EXCEPT ![c] = "cleared"]
    /\ UNCHANGED <<oplog, op, ret, result, scan, last, dueCount, created, addFailed, local>>
    /\ RaceFrame

\* ret is nil: the body of the if is skipped and nil is returned.
NextSkip(c) ==
    /\ pc[c] = "read"
    /\ local[c] = NIL
    /\ pc' = [pc EXCEPT ![c] = "notdue"]
    /\ ret' = NIL
    /\ last' = [NoCall EXCEPT !.call = "Next"]
    /\ UNCHANGED <<oplog, at, op, result, scan, dueCount, created, addFailed, local>>
    /\ RaceFrame

\* shouldRun, setOperation and the return, with the caller's own ret.
NextRest(c, iterErr, addErr) ==
    /\ pc[c] = "cleared"
    /\ LET d == shouldRun(oplog, iterErr)
           due == d.run /\ ~addErr
       IN  /\ result' = d
           /\ scan' = IF iterErr THEN NoScan ELSE ScanLog(oplog)
           /\ IF ~d.run
              THEN /\ ret' = NIL
                   /\ UNCHANGED <<oplog, op, addFailed>>
              ELSE /\ setOperation(NewStatsOperation(linkSnapshot, Deref(local[c])), addErr)
                   /\ ret' = NextReturn(addErr, local[c])
                   /\ addFailed' = (addFailed \/ addErr)
           /\ dueCount' = IF due THEN dueCount + 1 ELSE dueCount
           /\ created' = IF due THEN created + 1 ELSE created
           /\ pc' = [pc EXCEPT ![c] = IF due THEN "due" ELSE "notdue"]
           /\ last' = [call |-> "Next", now |-> NIL, had |-> local[c],
                       iterErr |-> iterErr, addErr |-> d.run /\ addErr]
    /\ UNCHANGED <<at, local>>
    /\ RaceFrame

----------------------------------------------------------------------------
(* Run *)

\* errors.New(msg)
ErrNew(msg) == [text |-> <<msg>>, wraps |-> NIL]

\* fmt.Errorf("<parts>: %w", inner)
Errorf(parts, inner) == [text |-> parts \o inner.text, wraps |-> Ptr(inner)]

\* err.Error()
ErrorText(e) == e.text

\* Name(): fmt.Sprintf("stats for plan %q", t.plan.Id)
Name == <<"stats for plan", PlanId>>

\* What repo.Stats(ctx) can do: succeed, fail, or be cut short by the
\* cancellation of ctx.
StatsOutcomes == {"ok", "failed", "canceled"}

StatsError(outcome) ==
    IF outcome = "canceled" THEN ErrNew("context canceled") ELSE ErrNew("restic stats failed")

RepoStats == "statistics of repo1"

\* t.orch.GetRepo(t.plan.Repo): the handle of the repository, nil with an error.
GetRepo(getErr) ==
    IF getErr THEN [repo |-> NIL, err |-> Ptr(ErrNew("repo not found"))]
    ELSE [repo |-> Ptr(PlanRepo), err |-> NIL]

\* repo.Config(): the configuration of the repository, none for a nil handle.
Config(repo) == IF repo = NIL THEN NIL ELSE Ptr([Id |-> Deref(repo)])

\* The function handed to runWithOpAndContext storing a Backup payload.
Body_StoresBackup(getErr, outcome) ==
    LET r == GetRepo(getErr)
    IN  IF r.err # NIL
        THEN [err |-> Ptr(Errorf(<<"get repo", PlanRepo>>, Deref(r.err))),
              payload |-> NIL, getRepoCalls |-> 1]
        ELSE IF outcome # "ok"
        THEN [err |-> Ptr(Errorf(<<"get stats">>, StatsError(outcome))),
              payload |-> NIL, getRepoCalls |-> 1]
        ELSE [err |-> NIL,
              payload |-> Ptr([Op |-> "OperationBackup", Stats |-> RepoStats]),
              getRepoCalls |-> 1]

\* The function handed to runWithOpAndContext leaving the statistics out.
Body_DropsStats(getErr, outcome) ==
    LET r == GetRepo(getErr)
    IN  IF r.err # NIL
        THEN [err |-> Ptr(Errorf(<<"get repo", PlanRepo>>, Deref(r.err))),
              payload |-> NIL, getRepoCalls |-> 1]
        ELSE IF outcome # "ok"
        THEN [err |-> Ptr(Errorf(<<"get stats">>, StatsError(outcome))),
              payload |-> NIL, getRepoCalls |-> 1]
        ELSE [err |-> NIL, payload |-> NIL, getRepoCalls |-> 1]

\* The function handed to runWithOpAndContext: its error, the payload it
\* stores in op.Op, the calls of GetRepo it makes.
Body(getErr, outcome) ==
    LET r == GetRepo(getErr)
    IN  IF r.err # NIL
        THEN [err |-> Ptr(Errorf(<<"get repo", PlanRepo>>, Deref(r.err))),
              payload |-> NIL, getRepoCalls |-> 1]
        ELSE IF outcome # "ok"
        THEN [err |-> Ptr(Errorf(<<"get stats">>, StatsError(outcome))),
              payload |-> NIL, getRepoCalls |-> 1]
        ELSE [err |-> NIL,
              payload |-> Ptr([Op |-> "OperationStats", Stats |-> RepoStats]),
              getRepoCalls |-> 1]

\* The call of ExecuteHooks with another condition than ANY_ERROR.
HookCall_OtherCondition(config, err) ==
    [config |-> config, plan |-> PlanId, snapshotId |-> "",
     conditions |-> <<"CONDITION_SNAPSHOT_END">>,
     vars |-> [Task |-> Name, Error |-> ErrorText(err)]]

\* t.orch.hookExecutor.ExecuteHooks(repo.Config(), t.plan, "", conditions, vars)
HookCall(config, err) ==
    [config |-> config, plan |-> PlanId, snapshotId |-> "",
     conditions |-> <<"CONDITION_ANY_ERROR">>,
     vars |-> [Task |-> Name, Error |-> ErrorText(err)]]

\* The hooks dispatched with the handle of the failed first resolution.
OnError_FirstHandle(err, getErr, hookGetErr) ==
    <<HookCall(Config(GetRepo(getErr).repo), err)>>

\* The error branch of Run: the repository is resolved again, its error
\* dropped, and the hooks are executed with the configuration of that handle.
OnError(err, getErr, hookGetErr) ==
    <<HookCall(Config(GetRepo(hookGetErr).repo), err)>>

\* Index in the log of the task's operation: the newest entry equal to it.
OpIndex(log, o) ==
    CHOOSE i \in DOMAIN log : log[i] = o /\ \A j \in DOMAIN log : j > i => log[j] # o

RunFrame == UNCHANGED <<at, linkSnapshot, ret, result, scan, tasks, dueCount, created,
                        addFailed, retention, pc, local, evalsLeft>>

NoInputs == [getErr |-> FALSE, hookGetErr |-> FALSE, stats |-> "ok"]

\* Run on a plan without retention policy going on to dispatch the hooks.
RunNoRetention_Hooks ==
    /\ retention = NIL
    /\ LET e == ErrNew("plan does not have a retention policy")
       IN  /\ runCall' = [called |-> TRUE, in |-> NoInputs, getRepoCalls |-> 1,
                          wrapErr |-> NIL, ret |-> Ptr(e)]
           /\ hooks' = OnError(e, FALSE, FALSE)
    /\ last' = [NoCall EXCEPT !.call = "Run"]
    /\ UNCHANGED <<oplog, op, opStats>>
    /\ RunFrame

\* Run(ctx) on a plan without retention policy.
RunNoRetention ==
    /\ retention = NIL
    /\ runCall' = [called |-> TRUE, in |-> NoInputs, getRepoCalls |-> 0, wrapErr |-> NIL,
                   ret |-> Ptr(ErrNew("plan does not have a retention policy"))]
    /\ hooks' = <<>>
    /\ last' = [NoCall EXCEPT !.call = "Run"]
    /\ UNCHANGED <<oplog, op, opStats>>
    /\ RunFrame

\* TaskWithOperation.runWithOpAndContext: the operation is marked INPROGRESS,
\* the function is run on it, and the operation ends SUCCESS or, when the
\* function returned an error, ERROR; the log is updated and the error returned.
runWithOpAndContext(b) ==
    LET o == Deref(op)
        done == [o EXCEPT !.Status = IF b.err = NIL THEN "SUCCESS" ELSE "ERROR",
                          !.Op = IF b.payload = NIL THEN @ ELSE Deref(b.payload).Op]
    IN  /\ op' = Ptr(done)
        /\ opStats' = IF b.payload = NIL THEN opStats ELSE Ptr(Deref(b.payload).Stats)
        /\ oplog' = [oplog EXCEPT ![OpIndex(oplog, o)] = done]

\* Run(ctx) on a plan with a retention policy, the task's operation pending.
RunWithRetention(getErr, hookGetErr, outcome) ==
    /\ retention # NIL
    /\ op # NIL
    /\ Deref(op).Status = "PENDING"
    /\ LET b == Body(getErr, outcome)
       IN  /\ runWithOpAndContext(b)
           /\ hooks' = IF b.err = NIL THEN <<>>
                       ELSE OnError(Deref(b.err), getErr, hookGetErr)
           /\ runCall' = [called |-> TRUE,
                          in |-> [getErr |-> getErr, hookGetErr |-> hookGetErr,
                                  stats |-> outcome],
                          getRepoCalls |-> b.getRepoCalls + (IF b.err = NIL THEN 0 ELSE 1),
                          wrapErr |-> b.err, ret |-> b.err]
    /\ last' = [NoCall EXCEPT !.call = "Run"]
    /\ RunFrame

Run ==
    \/ RunNoRetention
    \/ \E getErr \in BOOLEAN, hookGetErr \in BOOLEAN, outcome \in StatsOutcomes :
          RunWithRetention(getErr, hookGetErr, outcome)

\* A call of shouldRun on its own.
Evaluate(iterErr) ==
    /\ last.call \in {"none", "shouldRun"}
    /\ evalsLeft > 0
    /\ evalsLeft' = evalsLeft - 1
    /\ result' = shouldRun(oplog, iterErr)
    /\ scan' = IF iterErr THEN NoScan ELSE ScanLog(oplog)
    /\ last' = [NoCall EXCEPT !.call = "shouldRun", !.iterErr = iterErr]
    /\ UNCHANGED <<oplog, at, linkSnapshot, op, ret, tasks, dueCount, created,
                   addFailed, retention, opStats, hooks, runCall, pc, local>>

----------------------------------------------------------------------------
(* specifications *)

NoResult == [run |-> FALSE, err |-> FALSE]

NoRun == [called |-> FALSE, in |-> NoInputs, getRepoCalls |-> 0, wrapErr |-> NIL, ret |-> NIL]

Callers == {1, 2}

\* What a state holds before any call of Run or concurrent call of Next.
Untouched ==
    /\ addFailed = FALSE
    /\ opStats = NIL
    /\ hooks = <<>>
    /\ runCall = NoRun
    /\ pc = [c \in Callers |-> "idle"]
    /\ local = [c \in Callers |-> NIL]

Snapshots == {"", "snap1"}

\* The entries of the log a task is constructed over.
LifeAlphabet == {StatsOK, StatsPending, BackupOver}

\* The task life cycle: a task constructed over a short log.
Init ==
    /\ oplog \in SeqsUpTo(LifeAlphabet, MaxInitLog)
    /\ at \in {Ptr(i) : i \in Instants}
    /\ linkSnapshot \in Snapshots
    /\ op = NIL
    /\ ret = NIL
    /\ result = NoResult
    /\ scan = NoScan
    /\ last = [NoCall EXCEPT !.call = "NewOneoffStatsTask"]
    /\ tasks = 1
    /\ dueCount = 0
    /\ created = 0
    /\ retention \in {NIL, Ptr("policy")}
    /\ evalsLeft = 0
    /\ Untouched

NextStep ==
    \/ \E snap \in Snapshots, instant \in Instants : NewOneoffStatsTask(snap, instant)
    \/ \E now \in Instants : Next(now)
    \/ Run

Spec == Init /\ [][NextStep]_vars

\* The decision alone, over the family of logs.
InitEval ==
    /\ oplog \in LogFamily
    /\ at = NIL
    /\ linkSnapshot = ""
    /\ op = NIL
    /\ ret = NIL
    /\ result = NoResult
    /\ scan = NoScan
    /\ last = NoCall
    /\ tasks = 0
    /\ dueCount = 0
    /\ created = 0
    /\ retention = NIL
    /\ evalsLeft = 1
    /\ Untouched

NextEval == \E iterErr \in BOOLEAN : Evaluate(iterErr)

SpecEval == InitEval /\ [][NextEval]_vars

\* The logs the decision is taken over more than once: a run of equal
\* entries and a few explicit recent entries.
RepeatFamily == {run \o newer : run \in Runs, newer \in SeqsUpTo(Alphabet, MaxNewer - 1)}

\* The decision taken MaxEvals times over one log, by a task whose slot is set.
InitRepeat ==
    /\ oplog \in RepeatFamily
    /\ at = Ptr(NanosPerMilli)
    /\ linkSnapshot = ""
    /\ op = NIL
    /\ ret = NIL
    /\ result = NoResult
    /\ scan = NoScan
    /\ last = NoCall
    /\ tasks = 1
    /\ dueCount = 0
    /\ created = 0
    /\ retention = NIL
    /\ evalsLeft = MaxEvals
    /\ Untouched

SpecRepeat == InitRepeat /\ [][NextEval]_vars

\* A task constructed with its slot set, and Next called on it by every
\* caller without serialization.
InitRace ==
    /\ oplog \in SeqsUpTo(LifeAlphabet, MaxInitLog)
    /\ at \in {Ptr(i) : i \in Instants}
    /\ linkSnapshot \in Snapshots
    /\ op = NIL
    /\ ret = NIL
    /\ result = NoResult
    /\ scan = NoScan
    /\ last = [NoCall EXCEPT !.call = "NewOneoffStatsTask"]
    /\ tasks = 1
    /\ dueCount = 0
    /\ created = 0
    /\ retention = Ptr("policy")
    /\ evalsLeft = 0
    /\ Untouched

NextRace ==
    \E c \in Callers :
        \/ NextRead(c)
        \/ NextClear(c)
        \/ NextSkip(c)
        \/ \E iterErr \in BOOLEAN, addErr \in BOOLEAN : NextRest(c, iterErr, addErr)

SpecRace == InitRace /\ [][NextRace]_vars

----------------------------------------------------------------------------
(* what the claims speak of, stated on the log itself *)

K == statOperationsThreshold

\* shouldRun was called on oplog and its iteration of the log did not fail.
Evaluated == last.call = "shouldRun" /\ ~last.iterErr

IsStats(o) == Settled(o) /\ o.Op = "OperationStats"

SettledOf(log) == SelectSeq(log, Settled)

\* Index in the log of the most recent settled Stats operation, 0 if none.
BaselineIdx(log) ==
    LET S == {i \in DOMAIN log : IsStats(log[i])}
    IN  IF S = {} THEN 0 ELSE CHOOSE i \in S : \A j \in S : j <= i

NewerThanBaseline(log) == SubSeq(log, BaselineIdx(log) + 1, Len(log))

OlderThanBaseline(log) == SubSeq(log, 1, BaselineIdx(log) - 1)

FromBaseline(log) == SubSeq(log, BaselineIdx(log), Len(log))

\* Number of settled entries newer than the baseline.
SettledNewer(log) == Len(SettledOf(NewerThanBaseline(log)))

\* The baseline exists and lies among the K most recent settled entries.
BaselineInWindow(log) == BaselineIdx(log) > 0 /\ SettledNewer(log) < K

\* No settled Stats operation among the K most recent settled entries.
NoStatsInWindow(log) == BaselineIdx(log) = 0 \/ SettledNewer(log) >= K

\* Sum of the bytes added of the terminal summaries of settled backups.
RECURSIVE BytesAddedIn(_, _, _)
BytesAddedIn(s, lo, hi) ==
    IF lo > hi THEN Zero64
    ELSE IF lo = hi
    THEN IF Settled(s[lo]) /\ s[lo].Op = "OperationBackup" /\ s[lo].LastStatus = "Summary"
         THEN s[lo].DataAdded ELSE Zero64
    ELSE LET mid == (lo + hi) \div 2
         IN  Add64(BytesAddedIn(s, lo, mid), BytesAddedIn(s, mid + 1, hi))

BytesAdded(s) == BytesAddedIn(s, 1, Len(s))

NewestSettledIsStats(log) ==
    SettledOf(log) # <<>> /\ IsStats(SettledOf(log)[Len(SettledOf(log))])

----------------------------------------------------------------------------
(* claims about shouldRun, checked under SpecEval *)

\* C1: with no settled Stats operation inside the scanned window shouldRun
\* returns true, however many settled backups the window holds and whatever
\* bytes their summaries carry.
C1_NoBaselineRuns ==
    (Evaluated /\ NoStatsInWindow(oplog)) => result.run

\* C2 as stated: the most recent settled entry is a Stats operation and the
\* backups further back add more than the byte threshold: shouldRun returns true.
C2_OlderBytesRun ==
    (Evaluated /\ NewestSettledIsStats(oplog)
       /\ Gt64(BytesAdded(OlderThanBaseline(oplog)), statBytesThreshold))
    => result.run

\* C2 amended: the most recent settled entry is a Stats operation and the
\* backups further back add more than the byte threshold: shouldRun returns
\* false, the scan having stopped at the Stats operation with nothing accumulated.
C2_OlderBytesIgnored ==
    (Evaluated /\ NewestSettledIsStats(oplog)
       /\ Gt64(BytesAdded(OlderThanBaseline(oplog)), statBytesThreshold))
    => (~result.run /\ scan = [bytes |-> Zero64, far |-> 1])

C2_Witness ==
    /\ Evaluated
    /\ oplog = Repeat(Backup3GiB, 5) \o <<StatsOK>>
    /\ BytesAdded(OlderThanBaseline(oplog)) = I64(15, 0)
    /\ ~result.run

\* C3: a baseline is found after fewer than K settled entries and the bytes
\* added by the settled backups newer than it exceed statBytesThreshold:
\* shouldRun returns true.
C3_OverThresholdRuns ==
    (Evaluated /\ BaselineInWindow(oplog)
       /\ Gt64(BytesAdded(NewerThanBaseline(oplog)), statBytesThreshold))
    => result.run

\* C4: a Stats operation has fewer than 100 settled entries on its newer side
\* and the backups newer than it add at most the byte threshold: shouldRun
\* returns false.
C4_WithinThresholdsSkips ==
    (Evaluated /\ BaselineInWindow(oplog)
       /\ Le64(BytesAdded(NewerThanBaseline(oplog)), statBytesThreshold))
    => ~result.run

\* C5: unsettled entries are skipped and do not consume the bound: the
\* decision and the scan's counters on a log equal those on the same log with
\* every PENDING and INPROGRESS entry removed.
C5_UnsettledIgnored ==
    Evaluated =>
        /\ result = shouldRun(SettledOf(oplog), FALSE)
        /\ scan = ScanLog(SettledOf(oplog))

C5_Witness ==
    /\ Evaluated
    /\ Len(oplog) - Len(SettledOf(oplog)) >= K
    /\ BaselineIdx(oplog) > 0
    /\ ~result.run

\* C6: the scan stops at the first settled Stats operation: with the baseline
\* inside the window, removing, adding or replacing entries older than it
\* changes neither the decision nor the accumulated bytes and count.
C6_OlderEntriesIrrelevant ==
    (Evaluated /\ BaselineInWindow(oplog)) =>
        \A older \in Olders \cup {<<BackupOver, BackupOver>>} :
            /\ result = shouldRun(older \o FromBaseline(oplog), FALSE)
            /\ scan = ScanLog(older \o FromBaseline(oplog))

C6_Witness ==
    /\ Evaluated
    /\ BaselineInWindow(oplog)
    /\ BytesAdded(OlderThanBaseline(oplog)) # Zero64
    /\ SettledNewer(oplog) > 0
    /\ ~result.run

\* C7: on an empty log shouldRun returns true and no error.
C7_EmptyLogRuns ==
    (Evaluated /\ oplog = <<>>) => result = [run |-> TRUE, err |-> FALSE]

C7_Witness == Evaluated /\ oplog = <<>> /\ result.run

\* C8: a log of settled entries only whose K most recent entries hold no Stats
\* operation makes shouldRun return true through the operation count, whatever
\* bytes were accumulated.
C8_CountThresholdRuns ==
    (Evaluated /\ SettledOf(oplog) = oplog /\ Len(oplog) >= K /\ NoStatsInWindow(oplog))
    => (result.run /\ scan.far >= statOperationsThreshold)

C8_Witness ==
    /\ Evaluated
    /\ oplog = Repeat(BackupMiB, K + Extra)
    /\ result.run
    /\ scan.bytes # MinusOne64
    /\ Le64(scan.bytes, statBytesThreshold)

----------------------------------------------------------------------------
(* claims about Next, checked under Spec *)

\* C9: Next consumes the scheduled instant exactly once: after any call of
\* Next the slot is empty, a call that found the slot empty returns not due,
\* and a task returns due and creates an operation at most once.
C9_SlotConsumedOnce ==
    /\ last.call = "Next" => at = NIL
    /\ (last.call = "Next" /\ last.had = NIL) => ret = NIL
    /\ dueCount <= 1
    /\ created <= 1

C9_Witness ==
    /\ last.call = "Next"
    /\ last.had = NIL
    /\ at = NIL
    /\ dueCount = 1
    /\ created = 1

\* C10: a call of Next that finds the slot set and decides to run appends
\* exactly one operation to the log (PENDING, the plan's id and repository, the
\* task's snapshot link, a Stats payload, start time the consumed instant in
\* milliseconds) and returns the consumed instant, unless the log refuses the
\* operation; then, and when the decision is negative, it returns nil and
\* neither the log nor the task's operation changes.
C10_DueCreatesOnePending ==
    [][(at # NIL /\ last'.call = "Next") =>
        LET expected ==
                [Status |-> "PENDING", Op |-> "OperationStats", LastStatus |-> "nil",
                 DataAdded |-> Zero64, PlanId |-> PlanId, RepoId |-> PlanRepo,
                 SnapshotId |-> linkSnapshot,
                 UnixTimeStartMs |-> Deref(at) \div NanosPerMilli]
        IN  IF result'.run /\ ~last'.addErr
            THEN /\ oplog' = Append(oplog, expected)
                 /\ op' = Ptr(expected)
                 /\ ret' = at
            ELSE /\ oplog' = oplog
                 /\ op' = op
                 /\ ret' = NIL]_vars

C10_Witness ==
    /\ last.call = "Next"
    /\ ret # NIL
    /\ ret = last.had
    /\ last.now # last.had
    /\ linkSnapshot = "snap1"
    /\ op # NIL
    /\ oplog[Len(oplog)].UnixTimeStartMs * NanosPerMilli # Deref(ret)

\* C11: when the iteration of the log fails, shouldRun returns an error and
\* no positive decision, and the call of Next that made it returns nil, adds
\* no operation, and leaves the slot consumed.
C11_IterationErrorSkips ==
    [][(at # NIL /\ last'.call = "Next" /\ last'.iterErr) =>
        /\ result' = [run |-> FALSE, err |-> TRUE]
        /\ ret' = NIL
        /\ oplog' = oplog
        /\ op' = op
        /\ at' = NIL
        /\ created' = created]_vars

C11_Witness ==
    /\ last.call = "Next"
    /\ last.iterErr
    /\ last.had # NIL
    /\ result.err
    /\ shouldRun(oplog, FALSE).run
    /\ ret = NIL
    /\ at = NIL

\* C12: once the log has refused the task's operation, the call of Next
\* returned nil, the slot is and stays empty, and the task neither returns due
\* nor owns or creates an operation until a new task is constructed.
C12_PersistenceErrorAbandons ==
    addFailed =>
        /\ at = NIL
        /\ ret = NIL
        /\ op = NIL
        /\ dueCount = 0
        /\ created = 0

C12_Witness ==
    /\ addFailed
    /\ last.call = "Next"
    /\ last.had = NIL
    /\ shouldRun(oplog, FALSE).run
    /\ ret = NIL

\* C13: a call of Next on an empty slot returns nil and changes nothing: the
\* log is not scanned, no operation is created or added, the slot stays empty.
C13_EmptySlotNoEffect ==
    [][(at = NIL /\ last'.call = "Next") =>
        /\ ret' = NIL
        /\ UNCHANGED <<oplog, at, op, opStats, result, scan, hooks, linkSnapshot,
                       retention, dueCount, created>>]_vars

C13_Witness ==
    /\ last.call = "Next"
    /\ last.had = NIL
    /\ at = NIL
    /\ result.err
    /\ shouldRun(oplog, FALSE).run
    /\ op = NIL

----------------------------------------------------------------------------
(* claims about Run, checked under Spec *)

\* C14: Run on a plan without retention policy returns the configuration
\* error at once: the repository is not resolved, the operation's status and
\* payload and the log stay as they are, and no hook is dispatched.
C14_NoRetentionNoEffect ==
    [][(last'.call = "Run" /\ retention = NIL) =>
        /\ runCall'.ret # NIL
        /\ Deref(runCall'.ret).text = <<"plan does not have a retention policy">>
        /\ runCall'.getRepoCalls = 0
        /\ hooks' = <<>>
        /\ UNCHANGED <<oplog, op, opStats, at>>]_vars

C14_Witness ==
    /\ last.call = "Run"
    /\ retention = NIL
    /\ runCall.called
    /\ op # NIL
    /\ Deref(op).Status = "PENDING"
    /\ opStats = NIL
    /\ hooks = <<>>

\* C15: when Run, with a retention policy, fails in gathering the statistics
\* (the cancellation of the context included), the operation ends ERROR, the
\* hooks are executed exactly once with the one condition ANY_ERROR and with
\* the task's name and the error's text, and Run returns that error.
C15_StatsFailureHooksOnce ==
    (last.call = "Run" /\ retention # NIL /\ ~runCall.in.getErr /\ runCall.in.stats # "ok") =>
        LET text == <<"get stats",
                      IF runCall.in.stats = "canceled" THEN "context canceled"
                      ELSE "restic stats failed">>
        IN  /\ Deref(op).Status = "ERROR"
            /\ oplog[Len(oplog)] = Deref(op)
            /\ Len(hooks) = 1
            /\ hooks[1].conditions = <<"CONDITION_ANY_ERROR">>
            /\ hooks[1].vars = [Task |-> <<"stats for plan", PlanId>>, Error |-> text]
            /\ runCall.ret # NIL
            /\ Deref(runCall.ret).text = text

C15_Witness ==
    /\ last.call = "Run"
    /\ retention # NIL
    /\ ~runCall.in.getErr
    /\ runCall.in.stats = "canceled"
    /\ Len(hooks) = 1
    /\ Deref(op).Status = "ERROR"

\* C16 as stated: when the resolution of the repository fails in Run, the
\* ANY_ERROR hook is dispatched with an empty repository configuration and Run
\* returns the error of the resolution.
C16_ResolutionFailureEmptyConfig ==
    (last.call = "Run" /\ retention # NIL /\ runCall.in.getErr) =>
        /\ Len(hooks) = 1
        /\ hooks[1].conditions = <<"CONDITION_ANY_ERROR">>
        /\ hooks[1].config = NIL
        /\ runCall.ret # NIL
        /\ Deref(runCall.ret).text = <<"get repo", PlanRepo, "repo not found">>
        /\ hooks[1].vars.Error = Deref(runCall.ret).text

\* C16 amended: when the resolution of the repository fails in Run, the
\* ANY_ERROR hook is dispatched with the configuration of a second resolution
\* made for the dispatch, empty when that one fails too, and Run returns the
\* error of the first resolution.
C16_ResolutionFailureSecondConfig ==
    (last.call = "Run" /\ retention # NIL /\ runCall.in.getErr) =>
        /\ Len(hooks) = 1
        /\ hooks[1].conditions = <<"CONDITION_ANY_ERROR">>
        /\ hooks[1].config = IF runCall.in.hookGetErr THEN NIL ELSE Ptr([Id |-> PlanRepo])
        /\ runCall.getRepoCalls = 2
        /\ runCall.ret # NIL
        /\ Deref(runCall.ret).text = <<"get repo", PlanRepo, "repo not found">>
        /\ hooks[1].vars.Error = Deref(runCall.ret).text

C16_Witness ==
    /\ last.call = "Run"
    /\ retention # NIL
    /\ runCall.in.getErr
    /\ ~runCall.in.hookGetErr
    /\ Len(hooks) = 1
    /\ hooks[1].config # NIL
    /\ Deref(op).Status = "ERROR"

\* C17: when Run resolves the repository and gathers the statistics, they are
\* stored in the operation's Stats payload, the operation ends SUCCESS, Run
\* returns nil and no hook is dispatched; hooks are dispatched exactly when
\* the wrapped execution returned an error.
C17_SuccessStoresStats ==
    /\ (last.call = "Run" /\ retention # NIL /\ ~runCall.in.getErr /\ runCall.in.stats = "ok") =>
          /\ opStats = Ptr("statistics of repo1")
          /\ Deref(op).Op = "OperationStats"
          /\ Deref(op).Status = "SUCCESS"
          /\ oplog[Len(oplog)] = Deref(op)
          /\ runCall.ret = NIL
          /\ hooks = <<>>
    /\ last.call = "Run" => (hooks # <<>> <=> runCall.wrapErr # NIL)

C17_Witness ==
    /\ last.call = "Run"
    /\ retention # NIL
    /\ runCall.ret = NIL
    /\ opStats # NIL
    /\ Deref(op).Status = "SUCCESS"
    /\ hooks = <<>>

\* C19: the operation a stats task owns has a Stats payload in every state,
\* in the task and in the log, and the content of that payload is filled in
\* by a successful run only.
C19_PayloadStaysStats ==
    /\ op # NIL =>
          /\ Deref(op).Op = "OperationStats"
          /\ oplog # <<>>
          /\ oplog[Len(oplog)] = Deref(op)
    /\ opStats # NIL => (op # NIL /\ Deref(op).Status = "SUCCESS")

C19_Witness ==
    /\ last.call = "Run"
    /\ runCall.in.stats = "failed"
    /\ op # NIL
    /\ Deref(op).Status = "ERROR"
    /\ Deref(op).Op = "OperationStats"
    /\ opStats = NIL

----------------------------------------------------------------------------
(* claims about repeated calls of shouldRun, checked under SpecRepeat *)

----------------------------------------------------------------------------
(* claims about calls of Next that interleave, checked under SpecRace *)

\* The callers whose call of Next has cleared the slot.
Cleared == {d \in Callers : pc[d] \in {"cleared", "due", "notdue"} /\ local[d] # NIL}

\* C20: the slot is consumed once only when the calls of Next are serialized.
\* A call reads the slot as empty exactly when another call has cleared it
\* before; every call that read the instant before that, whatever the other
\* calls did since, goes on to clear the slot, and when it returns due it has
\* added a PENDING operation for the instant it read.
C20_ConsumeOnceNeedsSerialization ==
    [][\A c \in Callers :
        /\ (pc[c] = "idle" /\ pc'[c] = "read") =>
              /\ local'[c] = at
              /\ (local'[c] = NIL <=> Cleared \ {c} # {})
        /\ (pc[c] = "cleared" /\ pc'[c] = "due") =>
              /\ local[c] # NIL
              /\ ret' = local[c]
              /\ dueCount' = dueCount + 1
              /\ created' = created + 1
              /\ Len(oplog') = Len(oplog) + 1
              /\ oplog'[Len(oplog')].Status = "PENDING"
              /\ oplog'[Len(oplog')].Op = "OperationStats"
              /\ oplog'[Len(oplog')].UnixTimeStartMs = timeToUnixMillis(Deref(local[c]))]_vars

\* Both callers read the instant before either cleared the slot, and both
\* returned due, each with a PENDING operation of its own in the log.
C20_Witness ==
    /\ \A c \in Callers : pc[c] = "due"
    /\ local[1] = local[2]
    /\ local[1] # NIL
    /\ at = NIL
    /\ dueCount = 2
    /\ created = 2
    /\ Len(oplog) >= 2
    /\ oplog[Len(oplog)] = oplog[Len(oplog) - 1]
    /\ oplog[Len(oplog)].Status = "PENDING"

====
